---------------------------- MODULE Spec2Model ----------------------------
(***************************************************************************)
(* The per-tick decision core of the creep controller in src/src/lib.rs:   *)
(* game_loop runs run_creeps (one run_creep per live creep, against the    *)
(* CREEP_STATES map kept between ticks) and then spawn_creeps.             *)
(*                                                                         *)
(* The game is the environment.  Whatever the code asks the game (is the   *)
(* creep spawning, its store, whether an id resolves, the status of an     *)
(* action, the room's structures, the sources' path lengths, the room's    *)
(* energy, the status of a creation request) is drawn when the code asks   *)
(* for it and recorded next to the code's answer; what the code does not   *)
(* ask for in an iteration is recorded as None.                            *)
(*                                                                         *)
(* A Rust Option<T> is a sequence of length at most one.                   *)
(***************************************************************************)
EXTENDS Integers, Sequences, FiniteSets, TLC

VARIABLES
    tick,          \* game::time() of the current tick
    pc,            \* where game_loop is: "idle", "run_creeps", "spawn_creeps", "panicked"
    creeps,        \* game::creeps(): names of the creeps live this tick
    todo,          \* creeps the loop of run_creeps has not reached yet
    creep_states,  \* CREEP_STATES: HashMap<String, CreepState>
    frame,         \* Option: the running iteration of run_creeps' loop, what it asked and did
    spawns,        \* game::spawns(): names of the spawns live this tick
    spawn_todo,    \* spawns the loop of spawn_creeps has not reached yet
    additional,    \* spawn_creeps' local counter
    spawn_log,     \* per iteration of spawn_creeps' loop this tick: what it asked and did
    energy,        \* where the world is followed: the energy the creep "c1" carries
    place,         \* where the world is followed: where "c1" stands (see Places)
    created        \* where the run is recorded: the names of the creeps created so far

\* the world of the creep "c1", followed only by LiveSpec
world == <<energy, place>>

vars == <<tick, pc, creeps, todo, creep_states, frame,
          spawns, spawn_todo, additional, spawn_log, energy, place, created>>

----------------------------------------------------------------------------
(* Bounds of the model. *)

\* ticks a behaviour runs through
MaxTick == 3
\* largest energy capacity of a creep's store, in units of energy
MaxCarry == 2
\* longest structure roster of a room
MaxRoster == 2
\* longest path from a creep to a source
MaxPath == 2

----------------------------------------------------------------------------
(* The game's objects. *)

CreepNames == {"c1", "c2"}
Controllers == {"k1", "k2"}
Sources == {"s1", "s2"}
OtherStructures == {"x"}
SpawnNames == {"Spawn1", "Spawn2"}

\* ReturnCode, as far as the code tells its values apart
ReturnCodes == {"Ok", "NotInRange", "Other"}

None == << >>
Some(x) == <<x>>

\* enum CreepTarget
Upgrade(controller_id) == [kind |-> "Upgrade", id |-> controller_id]
Harvest(source_id) == [kind |-> "Harvest", id |-> source_id]
CreepTarget == {Upgrade(k) : k \in Controllers} \cup {Harvest(s) : s \in Sources}

\* struct CreepState
CreepState(target) == [target |-> target]

\* creep.store(): used and free capacity for energy
Stores == {[used |-> u, free |-> f] : u \in 0..MaxCarry, f \in 0..MaxCarry}
CreepStores == {s \in Stores : s.used + s.free <= MaxCarry}

\* room.find(find::STRUCTURES): the structures of a room in the game's order
Rosters == UNION {[1..n -> Controllers \cup OtherStructures] : n \in 0..MaxRoster}

\* the active sources a path leads to from a position, with the path's length
PathMaps == UNION {[S -> 1..MaxPath] : S \in SUBSET Sources}

\* a command sent to the game and the status it returned ("Unused": the code
\* drops the status)
Call(op, id, rc) == [op |-> op, id |-> id, rc |-> rc]

----------------------------------------------------------------------------
(* HashMap operations on CREEP_STATES. *)

Keys(m) == DOMAIN m
EmptyMap == [n \in {} |-> CreepState(None)]
Insert(m, k, v) == [n \in Keys(m) \cup {k} |-> IF n = k THEN v ELSE m[n]]
Remove(m, k) == [n \in Keys(m) \ {k} |-> m[n]]
Get(m, k) == IF k \in Keys(m) THEN Some(m[k]) ELSE None

----------------------------------------------------------------------------
(* The Task Executor.  Each operator is the set of the ways its function   *)
(* can go, one for every answer the game can give to what it asks:         *)
(* keep is the value returned, resolved the result of id.resolve(), rc the *)
(* status of the action attempted, calls the commands sent.                *)

Ran(keep, resolved, rc, sent) ==
    [keep |-> keep, resolved |-> resolved, rc |-> rc, calls |-> sent]

\* run_creep_upgrade sending move_to whenever the target stays valid
RunCreepUpgrade_MovesWheneverValid(store, controller_id) ==
    IF store.used <= 0
    THEN {Ran(FALSE, None, None, << >>)}
    ELSE UNION {
        IF ~resolved
        THEN {Ran(FALSE, Some(FALSE), None, << >>)}
        ELSE {IF rc \in {"Ok", "NotInRange"}
              THEN Ran(TRUE, Some(TRUE), Some(rc),
                       <<Call("upgrade_controller", controller_id, rc),
                         Call("move_to", controller_id, "Unused")>>)
              ELSE Ran(FALSE, Some(TRUE), Some(rc),
                       <<Call("upgrade_controller", controller_id, rc)>>)
              : rc \in ReturnCodes}
        : resolved \in BOOLEAN}

\* run_creep_upgrade without its check of the energy carried
RunCreepUpgrade_NoEnergyCheck(store, controller_id) ==
    UNION {
        IF ~resolved
        THEN {Ran(FALSE, Some(FALSE), None, << >>)}
        ELSE {CASE rc = "Ok" ->
                     Ran(TRUE, Some(TRUE), Some(rc),
                         <<Call("upgrade_controller", controller_id, rc)>>)
                [] rc = "NotInRange" ->
                     Ran(TRUE, Some(TRUE), Some(rc),
                         <<Call("upgrade_controller", controller_id, rc),
                           Call("move_to", controller_id, "Unused")>>)
                [] OTHER ->
                     Ran(FALSE, Some(TRUE), Some(rc),
                         <<Call("upgrade_controller", controller_id, rc)>>)
              : rc \in ReturnCodes}
        : resolved \in BOOLEAN}

\* fn run_creep_upgrade
RunCreepUpgrade(store, controller_id) ==
    IF store.used <= 0
    THEN {Ran(FALSE, None, None, << >>)}
    ELSE UNION {
        IF ~resolved
        THEN {Ran(FALSE, Some(FALSE), None, << >>)}
        ELSE {CASE rc = "Ok" ->
                     Ran(TRUE, Some(TRUE), Some(rc),
                         <<Call("upgrade_controller", controller_id, rc)>>)
                [] rc = "NotInRange" ->
                     Ran(TRUE, Some(TRUE), Some(rc),
                         <<Call("upgrade_controller", controller_id, rc),
                           Call("move_to", controller_id, "Unused")>>)
                [] OTHER ->
                     Ran(FALSE, Some(TRUE), Some(rc),
                         <<Call("upgrade_controller", controller_id, rc)>>)
              : rc \in ReturnCodes}
        : resolved \in BOOLEAN}

\* run_creep_harvest keeping the target on NotInRange without moving
RunCreepHarvest_NotInRangeNoMove(store, source_id) ==
    IF store.free <= 0
    THEN {Ran(FALSE, None, None, << >>)}
    ELSE UNION {
        IF ~resolved
        THEN {Ran(FALSE, Some(FALSE), None, << >>)}
        ELSE {IF rc \in {"Ok", "NotInRange"}
              THEN Ran(TRUE, Some(TRUE), Some(rc),
                       <<Call("harvest", source_id, rc)>>)
              ELSE Ran(FALSE, Some(TRUE), Some(rc),
                       <<Call("harvest", source_id, rc)>>)
              : rc \in ReturnCodes}
        : resolved \in BOOLEAN}

\* run_creep_harvest without its check of the free capacity
RunCreepHarvest_NoCapacityCheck(store, source_id) ==
    UNION {
        IF ~resolved
        THEN {Ran(FALSE, Some(FALSE), None, << >>)}
        ELSE {CASE rc = "Ok" ->
                     Ran(TRUE, Some(TRUE), Some(rc),
                         <<Call("harvest", source_id, rc)>>)
                [] rc = "NotInRange" ->
                     Ran(TRUE, Some(TRUE), Some(rc),
                         <<Call("harvest", source_id, rc),
                           Call("move_to", source_id, "Unused")>>)
                [] OTHER ->
                     Ran(FALSE, Some(TRUE), Some(rc),
                         <<Call("harvest", source_id, rc)>>)
              : rc \in ReturnCodes}
        : resolved \in BOOLEAN}

\* fn run_creep_harvest
RunCreepHarvest(store, source_id) ==
    IF store.free <= 0
    THEN {Ran(FALSE, None, None, << >>)}
    ELSE UNION {
        IF ~resolved
        THEN {Ran(FALSE, Some(FALSE), None, << >>)}
        ELSE {CASE rc = "Ok" ->
                     Ran(TRUE, Some(TRUE), Some(rc),
                         <<Call("harvest", source_id, rc)>>)
                [] rc = "NotInRange" ->
                     Ran(TRUE, Some(TRUE), Some(rc),
                         <<Call("harvest", source_id, rc),
                           Call("move_to", source_id, "Unused")>>)
                [] OTHER ->
                     Ran(FALSE, Some(TRUE), Some(rc),
                         <<Call("harvest", source_id, rc)>>)
              : rc \in ReturnCodes}
        : resolved \in BOOLEAN}

\* fn run_creep_by_target
RunCreepByTarget(store, creep_target) ==
    CASE creep_target.kind = "Upgrade" -> RunCreepUpgrade(store, creep_target.id)
      [] creep_target.kind = "Harvest" -> RunCreepHarvest(store, creep_target.id)

----------------------------------------------------------------------------
(* The Target Selection Policy. *)

\* the loop of find_target over the room's structures, from index i on: the
\* first controller, if any
RECURSIVE FirstControllerFrom(_, _)
FirstControllerFrom(roster, i) ==
    IF i > Len(roster) THEN None
    ELSE IF roster[i] \in Controllers THEN Some(roster[i])
    ELSE FirstControllerFrom(roster, i + 1)

\* the loop without its early return: the last controller wins
FirstController_LastWins(roster) ==
    LET at == {i \in 1..Len(roster) : roster[i] \in Controllers}
    IN IF at = {} THEN None
       ELSE Some(roster[CHOOSE i \in at : \A j \in at : j <= i])

FirstController(roster) == FirstControllerFrom(roster, 1)

\* pos.find_closest_by_path(find::SOURCES_ACTIVE): an active source with a
\* shortest path, whichever the game picks among equals; None without a path
FindClosestByPath(paths) ==
    IF DOMAIN paths = {} THEN {None}
    ELSE {Some(s) : s \in {s \in DOMAIN paths :
                              \A t \in DOMAIN paths : paths[s] <= paths[t]}}

Found(found, panicked, room, roster, paths) ==
    [found |-> found, panicked |-> panicked, room |-> room,
     roster |-> roster, paths |-> paths]

\* the last statement of find_target, after the roster was read or not
FindSource(roster) ==
    UNION {{Found(IF source = None THEN None ELSE Some(Harvest(source[1])),
                  FALSE, Some(TRUE), roster, Some(paths))
            : source \in FindClosestByPath(paths)}
           : paths \in PathMaps}

\* find_target scanning for a controller whatever the energy carried (>= 0)
FindTarget_ScansWithoutEnergy(store, rooms) ==
    UNION {
        IF ~room
        THEN {Found(None, TRUE, Some(FALSE), None, None)}
        ELSE IF store.used >= 0
        THEN UNION {
            IF FirstController(roster) # None
            THEN {Found(Some(Upgrade(FirstController(roster)[1])),
                        FALSE, Some(TRUE), Some(roster), None)}
            ELSE FindSource(Some(roster))
            : roster \in Rosters}
        ELSE FindSource(None)
        : room \in rooms}

\* fn find_target; rooms: the answers creep.room() can give (TRUE: a room)
FindTarget(store, rooms) ==
    UNION {
        IF ~room
        THEN {Found(None, TRUE, Some(FALSE), None, None)}
        ELSE IF store.used > 0
        THEN UNION {
            IF FirstController(roster) # None
            THEN {Found(Some(Upgrade(FirstController(roster)[1])),
                        FALSE, Some(TRUE), Some(roster), None)}
            ELSE FindSource(Some(roster))
            : roster \in Rosters}
        ELSE FindSource(None)
        : room \in rooms}

----------------------------------------------------------------------------
(* The Tick Driver. *)

\* state: the CreepState returned (None when find_target panicked);
\* exec and policy: how run_creep_by_target and find_target went, if called
Outcome(state, spawning, store, exec, policy) ==
    [state |-> state, spawning |-> spawning, store |-> store,
     exec |-> exec, policy |-> policy,
     calls |-> IF exec = None THEN << >> ELSE exec[1].calls]

Selected(p) == IF p.panicked THEN None ELSE Some(CreepState(p.found))

\* run_creep's match leaving the creep without a target when the executor
\* returns false
RunCreepMatch_NoReselect(creep_state, spawning, rooms) ==
    UNION {
        IF creep_state.target # None
        THEN UNION {
            IF e.keep
            THEN {Outcome(Some(CreepState(creep_state.target)),
                          spawning, Some(store), Some(e), None)}
            ELSE {Outcome(Some(CreepState(None)), spawning, Some(store), Some(e), None)}
            : e \in RunCreepByTarget(store, creep_state.target[1])}
        ELSE {Outcome(Selected(p), spawning, Some(store), None, Some(p))
              : p \in FindTarget(store, rooms)}
        : store \in CreepStores}

\* run_creep's match keeping the held target whatever the executor returns
RunCreepMatch_KeepsInvalid(creep_state, spawning, rooms) ==
    UNION {
        IF creep_state.target # None
        THEN {Outcome(Some(CreepState(creep_state.target)),
                      spawning, Some(store), Some(e), None)
              : e \in RunCreepByTarget(store, creep_state.target[1])}
        ELSE {Outcome(Selected(p), spawning, Some(store), None, Some(p))
              : p \in FindTarget(store, rooms)}
        : store \in CreepStores}

\* run_creep's match running the executor on the target find_target has
\* just returned
RunCreepMatch_RunsNewTarget(creep_state, spawning, rooms) ==
    UNION {
        UNION {
            IF p.found = None
            THEN {Outcome(Selected(p), spawning, Some(store), None, Some(p))}
            ELSE {[Outcome(Selected(p), spawning, Some(store), None, Some(p))
                      EXCEPT !.calls = e.calls]
                  : e \in RunCreepByTarget(store, p.found[1])}
            : p \in FindTarget(store, rooms)}
        : store \in CreepStores}

\* the match of run_creep on creep_state.target, for a creep whose
\* spawning() returned spawning
RunCreepMatch(creep_state, spawning, rooms) ==
    UNION {
        IF creep_state.target # None
        THEN UNION {
            IF e.keep
            THEN {Outcome(Some(CreepState(creep_state.target)),
                          spawning, Some(store), Some(e), None)}
            ELSE {Outcome(Selected(p), spawning, Some(store), Some(e), Some(p))
                  : p \in FindTarget(store, rooms)}
            : e \in RunCreepByTarget(store, creep_state.target[1])}
        ELSE {Outcome(Selected(p), spawning, Some(store), None, Some(p))
              : p \in FindTarget(store, rooms)}
        : store \in CreepStores}

\* run_creep without its early return for a spawning creep
RunCreep_IgnoresSpawning(creep_state, rooms) ==
    UNION {RunCreepMatch(creep_state, spawning, rooms) : spawning \in BOOLEAN}

\* fn run_creep
RunCreep(creep_state, rooms) ==
    UNION {
        IF spawning
        THEN {Outcome(Some(creep_state), TRUE, None, None, None)}
        ELSE RunCreepMatch(creep_state, FALSE, rooms)
        : spawning \in BOOLEAN}

\* states: the map after the iteration; removed: what creep_states.remove
\* returned; run: how run_creep went, if called
Iteration(states, name, removed, run) ==
    [states |-> states, frame |-> [name |-> name, removed |-> removed, run |-> run]]

\* the loop's body calling run_creep for a creep without an entry too
RunCreepsBody_RunsNewCreep(states, creep_name, rooms) ==
    LET creep_state == IF Get(states, creep_name) # None
                       THEN Get(states, creep_name)[1] ELSE CreepState(None)
    IN {Iteration(IF o.state = None
                  THEN Remove(states, creep_name)
                  ELSE Insert(Remove(states, creep_name), creep_name, o.state[1]),
                  creep_name, Get(states, creep_name), Some(o))
        : o \in RunCreep(creep_state, rooms)}

\* the body of the loop of run_creeps for the creep named creep_name
RunCreepsBody(states, creep_name, rooms) ==
    IF Get(states, creep_name) # None
    THEN {Iteration(IF o.state = None
                    THEN Remove(states, creep_name)
                    ELSE Insert(Remove(states, creep_name), creep_name, o.state[1]),
                    creep_name, Get(states, creep_name), Some(o))
          : o \in RunCreep(Get(states, creep_name)[1], rooms)}
    ELSE {Iteration(Insert(states, creep_name, CreepState(None)),
                    creep_name, None, None)}

\* creep.room() of a creep of game::creeps(), spawn.room() of a spawn of
\* game::spawns(): the room of an owned object is visible, so it resolves
OwnedRooms == {TRUE}

\* what the type of room() allows: Some(room) or None
AnyRooms == BOOLEAN

----------------------------------------------------------------------------
(* The Production Trigger. *)

\* Part::cost()
PartCost(part) ==
    CASE part = "Move" -> 50
      [] part = "Carry" -> 50
      [] part = "Work" -> 100

Body == <<"Move", "Move", "Carry", "Work">>

\* body.iter().map(|p| p.cost()).sum()
RECURSIVE SumCost(_, _)
SumCost(body, i) ==
    IF i > Len(body) THEN 0 ELSE PartCost(body[i]) + SumCost(body, i + 1)

BodyCost == SumCost(Body, 1)

\* energy_available() of a spawn's room: below, at and above the body's cost
EnergyLevels == {BodyCost - 1, BodyCost, BodyCost + 1}

\* the statuses of spawn_creep the code tells apart
SpawnCodes == {"Ok", "Other"}

\* the name made of the counter alone: format!("{}", additional)
Name_WithoutTime(name_base, n) == ToString(n)

\* format!("{}-{}", name_base, additional)
Name(name_base, n) == ToString(name_base) \o "-" \o ToString(n)

\* additional: the counter after the iteration; panicked: spawn.room() was
\* None and unwrap panicked
Spawned(n, spawn, room_energy, request) ==
    [additional |-> n, panicked |-> FALSE,
     entry |-> [spawn |-> spawn, energy |-> room_energy, request |-> request]]

SpawnPanicked(n, spawn) ==
    [additional |-> n, panicked |-> TRUE,
     entry |-> [spawn |-> spawn, energy |-> 0, request |-> None]]

\* the loop's body without additional += 1
SpawnCreepsBody_NeverIncrements(time, n, spawn, rooms) ==
    UNION {
        IF ~room
        THEN {SpawnPanicked(n, spawn)}
        ELSE UNION {
            IF room_energy >= BodyCost
            THEN {Spawned(n, spawn, room_energy,
                          Some([name |-> Name(time, n), res |-> res]))
                  : res \in SpawnCodes}
            ELSE {Spawned(n, spawn, room_energy, None)}
            : room_energy \in EnergyLevels}
        : room \in rooms}

\* the loop's body asking for more energy than the body costs (> for >=)
SpawnCreepsBody_StrictlyMore(time, n, spawn, rooms) ==
    UNION {
        IF ~room
        THEN {SpawnPanicked(n, spawn)}
        ELSE UNION {
            IF room_energy > BodyCost
            THEN {IF res # "Ok"
                  THEN Spawned(n, spawn, room_energy,
                               Some([name |-> Name(time, n), res |-> res]))
                  ELSE Spawned(n + 1, spawn, room_energy,
                               Some([name |-> Name(time, n), res |-> res]))
                  : res \in SpawnCodes}
            ELSE {Spawned(n, spawn, room_energy, None)}
            : room_energy \in EnergyLevels}
        : room \in rooms}

\* the loop's body counting every request, whatever its status
SpawnCreepsBody_AlwaysIncrements(time, n, spawn, rooms) ==
    UNION {
        IF ~room
        THEN {SpawnPanicked(n, spawn)}
        ELSE UNION {
            IF room_energy >= BodyCost
            THEN {Spawned(n + 1, spawn, room_energy,
                          Some([name |-> Name(time, n), res |-> res]))
                  : res \in SpawnCodes}
            ELSE {Spawned(n, spawn, room_energy, None)}
            : room_energy \in EnergyLevels}
        : room \in rooms}

\* the body of the loop of spawn_creeps for one spawn, the counter being n;
\* rooms: the answers spawn.room() can give (TRUE: a room)
SpawnCreepsBody(time, n, spawn, rooms) ==
    UNION {
        IF ~room
        THEN {SpawnPanicked(n, spawn)}
        ELSE UNION {
            IF room_energy >= BodyCost
            THEN {IF res # "Ok"
                  THEN Spawned(n, spawn, room_energy,
                               Some([name |-> Name(time, n), res |-> res]))
                  ELSE Spawned(n + 1, spawn, room_energy,
                               Some([name |-> Name(time, n), res |-> res]))
                  : res \in SpawnCodes}
            ELSE {Spawned(n, spawn, room_energy, None)}
            : room_energy \in EnergyLevels}
        : room \in rooms}

----------------------------------------------------------------------------
(* The state machine. *)

Init ==
    /\ tick = 0
    /\ pc = "idle"
    /\ creeps = {}
    /\ todo = {}
    /\ creep_states = EmptyMap
    /\ frame = None
    /\ spawns = {}
    /\ spawn_todo = {}
    /\ additional = None
    /\ spawn_log = << >>
    /\ energy = 0
    /\ place = 0
    /\ created = << >>

\* the game calls game_loop for the next tick; run_creeps begins with this
\* tick's creeps, one of rosters
GameLoopStep(rosters) ==
    /\ pc = "idle"
    /\ tick < MaxTick
    /\ tick' = tick + 1
    /\ pc' = "run_creeps"
    /\ \E live \in rosters : creeps' = live /\ todo' = live
    /\ spawns' = {}
    /\ frame' = None
    /\ spawn_log' = << >>
    /\ UNCHANGED <<creep_states, spawn_todo, additional, world, created>>

GameLoop == GameLoopStep(SUBSET CreepNames)

\* the body of the loop of run_creeps runs for one more creep, whose room()
\* answers one of rooms
RunCreepsStep(creep_name, rooms) ==
    /\ pc = "run_creeps"
    /\ frame = None
    /\ creep_name \in todo
    /\ \E it \in RunCreepsBody(creep_states, creep_name, rooms) :
          /\ creep_states' = it.states
          /\ frame' = Some(it.frame)
          /\ pc' = IF it.frame.run # None /\ it.frame.run[1].state = None
                   THEN "panicked" ELSE pc
    /\ todo' = todo \ {creep_name}
    /\ UNCHANGED <<tick, creeps, spawns, spawn_todo, additional, spawn_log,
                   world, created>>

RunCreepsIter(creep_name) == RunCreepsStep(creep_name, OwnedRooms)

\* the body of the loop ends: its locals are dropped
RunCreepsNext ==
    /\ pc = "run_creeps"
    /\ frame # None
    /\ frame' = None
    /\ UNCHANGED <<tick, pc, creeps, todo, creep_states,
                   spawns, spawn_todo, additional, spawn_log, world, created>>

\* run_creeps dropping, as it returns, the entries of the creeps that are
\* not live
SpawnCreeps_RetainsLive ==
    /\ pc = "run_creeps"
    /\ todo = {}
    /\ frame = None
    /\ pc' = "spawn_creeps"
    /\ additional' = Some(0)
    /\ creep_states' = [n \in Keys(creep_states) \cap creeps |-> creep_states[n]]
    /\ \E live \in SUBSET SpawnNames : spawns' = live /\ spawn_todo' = live
    /\ UNCHANGED <<tick, creeps, todo, frame, spawn_log, world, created>>

\* run_creeps returns and spawn_creeps begins with this tick's spawns
SpawnCreeps ==
    /\ pc = "run_creeps"
    /\ todo = {}
    /\ frame = None
    /\ pc' = "spawn_creeps"
    /\ additional' = Some(0)
    /\ \E live \in SUBSET SpawnNames : spawns' = live /\ spawn_todo' = live
    /\ UNCHANGED <<tick, creeps, todo, creep_states, frame, spawn_log,
                   world, created>>

\* the names an iteration of spawn_creeps' loop created
CreatedBy(it) ==
    IF ~it.panicked /\ it.entry.request # None /\ it.entry.request[1].res = "Ok"
    THEN <<it.entry.request[1].name>> ELSE << >>

\* one iteration of the loop of spawn_creeps, for a spawn whose room()
\* answers one of rooms; recorded: the names created are added to created
SpawnCreepsStep(spawn, rooms, recorded) ==
    /\ pc = "spawn_creeps"
    /\ spawn \in spawn_todo
    /\ \E it \in SpawnCreepsBody(tick, additional[1], spawn, rooms) :
          /\ additional' = Some(it.additional)
          /\ spawn_log' = IF it.panicked THEN spawn_log
                          ELSE Append(spawn_log, it.entry)
          /\ pc' = IF it.panicked THEN "panicked" ELSE pc
          /\ created' = IF recorded THEN created \o CreatedBy(it) ELSE created
    /\ spawn_todo' = spawn_todo \ {spawn}
    /\ UNCHANGED <<tick, creeps, todo, creep_states, frame, spawns, world>>

SpawnCreepsIter(spawn) == SpawnCreepsStep(spawn, OwnedRooms, FALSE)

\* spawn_creeps and game_loop return
GameLoopDone ==
    /\ pc = "spawn_creeps"
    /\ spawn_todo = {}
    /\ pc' = "idle"
    /\ additional' = None
    /\ UNCHANGED <<tick, creeps, todo, creep_states, frame,
                   spawns, spawn_todo, spawn_log, world, created>>

Next ==
    \/ GameLoop
    \/ \E creep_name \in CreepNames : RunCreepsIter(creep_name)
    \/ RunCreepsNext
    \/ SpawnCreeps
    \/ \E spawn \in SpawnNames : SpawnCreepsIter(spawn)
    \/ GameLoopDone

Spec == Init /\ [][Next]_vars

----------------------------------------------------------------------------
(* What the running iteration of run_creeps' loop recorded. *)

\* run_creep was called in the running iteration
Ran1 == frame # None /\ frame[1].run # None
FrName == frame[1].name
FrRun == frame[1].run[1]
\* the target the creep held when the iteration began
FrHeld == frame[1].removed[1].target
\* run_creep called run_creep_by_target / find_target
Executed == Ran1 /\ FrRun.exec # None
Selecting == Ran1 /\ FrRun.policy # None
FrExec == FrRun.exec[1]
FrPolicy == FrRun.policy[1]

\* the commands of a sequence of calls: a move_to, or a harvest or upgrade
\* the game accepted (a rejected attempt leaves no command with the game)
Moves(sent) == {i \in 1..Len(sent) : sent[i].op = "move_to"}
Actions(sent) ==
    {i \in 1..Len(sent) :
        sent[i].op \in {"harvest", "upgrade_controller"} /\ sent[i].rc = "Ok"}

----------------------------------------------------------------------------
(* C1: after every completed run of run_creeps the key set of CREEP_STATES *)
(* is exactly the set of the creeps live in that tick.                     *)
C1_KeysAreLiveCreeps ==
    pc = "spawn_creeps" => Keys(creep_states) = creeps

(* C2: a creep that is not spawning, holds a target of either variant and  *)
(* gets NotInRange from its action ends the iteration with the very        *)
(* descriptor it held, and exactly one move command was sent for it, to    *)
(* the target's object.                                                    *)
C2_NotInRangeKeepsTargetAndMoves ==
    (Executed /\ FrExec.rc = Some("NotInRange")) =>
        /\ ~FrRun.spawning
        /\ FrHeld # None
        /\ FrName \in Keys(creep_states)
        /\ creep_states[FrName] = CreepState(FrHeld)
        /\ Cardinality(Moves(FrRun.calls)) = 1
        /\ \A i \in Moves(FrRun.calls) : FrRun.calls[i].id = FrHeld[1].id

C2_Witness ==
    /\ Executed
    /\ FrExec.rc = Some("NotInRange")
    /\ FrHeld = Some(Harvest("s2"))
    /\ creep_states[FrName].target = Some(Harvest("s2"))

(* C3: in an iteration the executor sends for the creep at most one        *)
(* command, a move or a harvest/upgrade, never a move and a harvest or     *)
(* upgrade both.                                                           *)
C3_AtMostOneCommand ==
    Ran1 =>
        /\ Cardinality(Moves(FrRun.calls)) + Cardinality(Actions(FrRun.calls)) <= 1
        /\ ~(Moves(FrRun.calls) # {} /\ Actions(FrRun.calls) # {})

C3_Witness ==
    /\ Executed
    /\ Cardinality(Actions(FrRun.calls)) = 1
    /\ Moves(FrRun.calls) = {}

(* C4: a live creep without an entry is inserted with no target, and in    *)
(* that iteration run_creep, hence the executor and the policy, is not     *)
(* called and nothing is sent; the policy runs for a creep only in an      *)
(* iteration that found an entry for it.                                   *)
C4_NewCreepOnlyInserted ==
    frame # None =>
        /\ frame[1].removed = None =>
              /\ FrName \in Keys(creep_states)
              /\ creep_states[FrName] = CreepState(None)
              /\ frame[1].run = None
        /\ frame[1].run # None => frame[1].removed # None

C4_Witness ==
    /\ frame # None
    /\ frame[1].removed = None
    /\ creep_states[FrName] = CreepState(None)
    /\ tick > 1

(* C5: a creep that is not spawning and holds Upgrade(c) with no energy    *)
(* carried: the executor returns false, nothing is sent, and the creep     *)
(* does not hold an Upgrade target after the iteration.                    *)
C5_UpgradeWithoutEnergyDropped ==
    (/\ Ran1
     /\ ~FrRun.spawning
     /\ FrHeld # None
     /\ FrHeld[1].kind = "Upgrade"
     /\ FrRun.store # None
     /\ FrRun.store[1].used = 0) =>
        /\ Executed
        /\ ~FrExec.keep
        /\ FrExec.rc = None
        /\ FrRun.calls = << >>
        /\ FrName \in Keys(creep_states)
        /\ creep_states[FrName].target # FrHeld
        /\ creep_states[FrName].target # None =>
              creep_states[FrName].target[1].kind = "Harvest"

C5_Witness ==
    /\ Executed
    /\ FrHeld = Some(Upgrade("k1"))
    /\ FrRun.store[1].used = 0
    /\ ~FrExec.keep
    /\ creep_states[FrName].target = Some(Harvest("s1"))

(* C6: when the id of the target held, of either variant, does not         *)
(* resolve, the executor returns false and sends nothing, the tick goes    *)
(* on, and the creep's target becomes what find_target returns in that     *)
(* same iteration.                                                         *)
C6_UnresolvedTargetReplaced ==
    (Executed /\ FrExec.resolved = Some(FALSE)) =>
        /\ ~FrExec.keep
        /\ FrRun.calls = << >>
        /\ pc # "panicked"
        /\ Selecting
        /\ FrName \in Keys(creep_states)
        /\ creep_states[FrName] = CreepState(FrPolicy.found)

C6_Witness ==
    /\ Executed
    /\ FrExec.resolved = Some(FALSE)
    /\ FrHeld = Some(Harvest("s1"))
    /\ Selecting
    /\ FrPolicy.found = Some(Upgrade("k2"))
    /\ creep_states[FrName].target = Some(Upgrade("k2"))

(* C7: find_target called for a creep carrying energy in a room whose      *)
(* roster holds a controller returns Upgrade(k), k the first controller of *)
(* the roster, whatever else the roster holds, and without asking for the  *)
(* sources.                                                                *)
C7_FirstControllerSelected ==
    (/\ Selecting
     /\ FrRun.store[1].used > 0
     /\ FrPolicy.roster # None
     /\ \E i \in 1..Len(FrPolicy.roster[1]) : FrPolicy.roster[1][i] \in Controllers) =>
        LET roster == FrPolicy.roster[1]
        IN /\ \E i \in 1..Len(roster) :
                 /\ roster[i] \in Controllers
                 /\ \A j \in 1..(i - 1) : roster[j] \notin Controllers
                 /\ FrPolicy.found = Some(Upgrade(roster[i]))
           /\ FrPolicy.paths = None

C7_Witness ==
    /\ Selecting
    /\ FrRun.store[1].used > 0
    /\ FrPolicy.roster = Some(<<"k2", "k1">>)
    /\ FrPolicy.found = Some(Upgrade("k2"))

(* C8: find_target called for a creep carrying no energy, or in a room     *)
(* whose roster holds no controller, returns Harvest(s) for a source s     *)
(* with a shortest path when a path leads to an active source, and None    *)
(* when none does; never an Upgrade.                                       *)
C8_OtherwiseNearestSource ==
    (/\ Selecting
     /\ ~FrPolicy.panicked
     /\ \/ FrRun.store[1].used = 0
        \/ /\ FrPolicy.roster # None
           /\ \A i \in 1..Len(FrPolicy.roster[1]) :
                 FrPolicy.roster[1][i] \notin Controllers) =>
        /\ FrPolicy.paths # None
        /\ LET paths == FrPolicy.paths[1]
           IN IF DOMAIN paths = {}
              THEN FrPolicy.found = None
              ELSE \E s \in DOMAIN paths :
                      /\ \A t \in DOMAIN paths : paths[s] <= paths[t]
                      /\ FrPolicy.found = Some(Harvest(s))

C8_Witness ==
    /\ Selecting
    /\ FrRun.store[1].used > 0
    /\ FrPolicy.roster = Some(<<"x">>)
    /\ FrPolicy.paths # None
    /\ DOMAIN FrPolicy.paths[1] = Sources
    /\ FrPolicy.paths[1]["s2"] < FrPolicy.paths[1]["s1"]
    /\ FrPolicy.found = Some(Harvest("s2"))

(* C9: for a creep that has an entry and is spawning, the entry after the  *)
(* iteration is the entry before it, neither the executor nor the policy   *)
(* is called and nothing is sent.                                          *)
C9_SpawningCreepUntouched ==
    (Ran1 /\ FrRun.spawning) =>
        /\ FrName \in Keys(creep_states)
        /\ creep_states[FrName] = frame[1].removed[1]
        /\ FrRun.exec = None
        /\ FrRun.policy = None
        /\ FrRun.store = None
        /\ FrRun.calls = << >>

C9_Witness ==
    /\ Ran1
    /\ FrRun.spawning
    /\ FrHeld = Some(Upgrade("k1"))
    /\ creep_states[FrName].target = Some(Upgrade("k1"))

----------------------------------------------------------------------------
(* The creation requests of this tick, in the order they were made. *)

Requests == {i \in 1..Len(spawn_log) : spawn_log[i].request # None}
RequestName(i) == spawn_log[i].request[1].name
RequestRes(i) == spawn_log[i].request[1].res

(* C10, as claimed: within a tick any two spawns that both make a creation *)
(* request use different names.                                            *)
C10_RequestNamesDistinct ==
    \A i, j \in Requests : i < j => RequestName(i) # RequestName(j)

(* C10, amended: within a tick two creation requests carry different names *)
(* exactly when a request from the earlier one on, before the later one,   *)
(* returned Ok; a request that follows only rejected ones repeats their    *)
(* name.                                                                   *)
C10_NamesDistinctAfterSuccess ==
    \A i, j \in Requests :
        i < j =>
            (RequestName(i) # RequestName(j)
                <=> \E k \in Requests : i <= k /\ k < j /\ RequestRes(k) = "Ok")

C10_Witness ==
    /\ Len(spawn_log) = 2
    /\ Requests = {1, 2}
    /\ RequestRes(1) = "Ok"
    /\ RequestName(1) # RequestName(2)
    /\ spawn_log[1].energy = BodyCost
    /\ spawn_log[2].energy = BodyCost

----------------------------------------------------------------------------
\* the spawns the loop of spawn_creeps has run for in this tick
Processed == {spawn_log[i].spawn : i \in 1..Len(spawn_log)}
\* game_loop has returned from a tick
TickDone == pc = "idle" /\ tick > 0

(* C11: in a tick spawn_creeps makes exactly one creation request for      *)
(* every live spawn whose room holds at least the 250 energy the body      *)
(* costs, 250 included, and none for a spawn whose room holds less.        *)
C11_OneRequestPerAffordingSpawn ==
    /\ \A i \in 1..Len(spawn_log) :
          (spawn_log[i].request # None) <=> (spawn_log[i].energy >= 250)
    /\ \A i, j \in 1..Len(spawn_log) :
          i # j => spawn_log[i].spawn # spawn_log[j].spawn
    /\ pc = "spawn_creeps" => Processed = spawns \ spawn_todo
    /\ TickDone => Processed = spawns

C11_Witness ==
    /\ TickDone
    /\ Len(spawn_log) = 2
    /\ spawn_log[1].energy = 250
    /\ spawn_log[1].request # None
    /\ spawn_log[2].energy = 249
    /\ spawn_log[2].request = None

(* C12: an iteration whose creation request is rejected leaves the counter *)
(* and CREEP_STATES as they were and the loop goes on to the spawns left,  *)
(* so that every live spawn is processed; an iteration whose request       *)
(* succeeds adds exactly one to the counter; the counter is zero when      *)
(* spawn_creeps begins, in every tick.                                     *)
C12_CounterFollowsSuccess ==
    /\ [][Len(spawn_log') = Len(spawn_log) + 1 =>
            LET e == spawn_log'[Len(spawn_log')]
            IN /\ (e.request # None /\ e.request[1].res # "Ok") =>
                     /\ additional' = additional
                     /\ creep_states' = creep_states
                     /\ pc' = "spawn_creeps"
                     /\ spawn_todo' = spawn_todo \ {e.spawn}
               /\ (e.request # None /\ e.request[1].res = "Ok") =>
                     additional' = Some(additional[1] + 1)]_vars
    /\ [][(pc # "spawn_creeps" /\ pc' = "spawn_creeps") => additional' = Some(0)]_vars
    /\ [](TickDone => Processed = spawns)

C12_Witness ==
    /\ tick > 1
    /\ Requests = {1, 2}
    /\ RequestRes(1) = "Other"
    /\ RequestRes(2) = "Ok"
    /\ additional = Some(1)

\* the target CREEP_STATES holds for the creep of the running iteration
FrTarget == creep_states[FrName].target

(* C15: for a creep that is not spawning and had an entry, the target at   *)
(* the end of the iteration follows the two-state machine: holding no      *)
(* target, it is what find_target returned; holding one that               *)
(* run_creep_by_target reported valid, it is the identical descriptor;     *)
(* holding one reported invalid, it is what a find_target call of the      *)
(* same iteration returned (None only when find_target returned None).     *)
C15_TwoStateMachine ==
    (Ran1 /\ ~FrRun.spawning) =>
        /\ FrName \in Keys(creep_states)
        /\ Executed <=> FrHeld # None
        /\ Executed =>
              FrExec \in RunCreepByTarget(FrRun.store[1], FrHeld[1])
        /\ Selecting => ~FrPolicy.panicked
        /\ FrHeld = None =>
              Selecting /\ FrTarget = FrPolicy.found
        /\ (Executed /\ FrExec.keep) =>
              ~Selecting /\ FrTarget = FrHeld
        /\ (Executed /\ ~FrExec.keep) =>
              Selecting /\ FrTarget = FrPolicy.found

C15_Witness ==
    /\ Executed
    /\ ~FrExec.keep
    /\ FrHeld = Some(Upgrade("k1"))
    /\ Selecting
    /\ FrPolicy.found = Some(Harvest("s1"))
    /\ FrTarget = Some(Harvest("s1"))

\* find_target saw a room without a controller and with an active source
\* that a path leads to
SawSourceAndNoController ==
    /\ Selecting
    /\ FrPolicy.roster # None =>
          \A i \in 1..Len(FrPolicy.roster[1]) :
              FrPolicy.roster[1][i] \notin Controllers
    /\ FrPolicy.paths # None
    /\ DOMAIN FrPolicy.paths[1] # {}

ActionOf(kind) == IF kind = "Harvest" THEN "harvest" ELSE "upgrade_controller"

(* C17: everything sent for a creep in an iteration, a harvest, an upgrade *)
(* or a move, names the object of the target the creep held when the       *)
(* iteration began; a target find_target returns is not acted on in the    *)
(* iteration that selected it, so a creep that begins without a target     *)
(* sends nothing.                                                          *)
C17_CommandsAtHeldTarget ==
    Ran1 =>
        /\ \A i \in 1..Len(FrRun.calls) :
              /\ FrHeld # None
              /\ FrRun.calls[i].id = FrHeld[1].id
              /\ FrRun.calls[i].op \in {"move_to", ActionOf(FrHeld[1].kind)}
        /\ FrHeld = None => FrRun.calls = << >>
        /\ Selecting =>
              /\ Moves(FrRun.calls) = {}
              /\ Actions(FrRun.calls) = {}
              /\ Len(FrRun.calls) <= 1

C17_Witness ==
    /\ Executed
    /\ FrHeld = Some(Harvest("s1"))
    /\ FrExec.rc = Some("Other")
    /\ FrRun.calls = <<Call("harvest", "s1", "Other")>>
    /\ Selecting
    /\ FrPolicy.found = Some(Harvest("s2"))
    /\ FrTarget = Some(Harvest("s2"))

(* C19: no step removes or changes the CREEP_STATES entry of a name that   *)
(* is not among the live creeps, so the key set never shrinks; and the     *)
(* loop's body, run for a live creep whose name has an entry, from         *)
(* whatever tick, hands that entry to run_creep.                           *)
C19_AbsentEntriesKept ==
    [][/\ Keys(creep_states) \subseteq Keys(creep_states')
       /\ \A n \in Keys(creep_states) :
             n \notin creeps' => creep_states'[n] = creep_states[n]
       /\ (frame = None /\ frame' # None) =>
             /\ frame'[1].removed = Get(creep_states, frame'[1].name)
             /\ frame'[1].run # None <=> frame'[1].name \in Keys(creep_states)
             /\ (frame'[1].run # None /\ ~frame'[1].run[1].spawning) =>
                   LET held == creep_states[frame'[1].name].target
                       run == frame'[1].run[1]
                   IN /\ run.exec # None <=> held # None
                      /\ run.exec # None =>
                            run.exec[1] \in RunCreepByTarget(run.store[1], held[1])]_vars

C19_Witness ==
    /\ pc = "spawn_creeps"
    /\ tick = MaxTick
    /\ creeps = {"c2"}
    /\ creep_states["c2"].target = None
    /\ "c1" \in Keys(creep_states)
    /\ creep_states["c1"].target = Some(Harvest("s1"))

----------------------------------------------------------------------------
(* The same loops where room() may answer None, as its type allows:        *)
(* find_target takes creep.room() with expect (line 137) and spawn_creeps  *)
(* takes spawn.room() with unwrap (line 168).                              *)
RunCreepsIterAnyRoom(creep_name) == RunCreepsStep(creep_name, AnyRooms)

SpawnCreepsIterAnyRoom(spawn) == SpawnCreepsStep(spawn, AnyRooms, FALSE)

AnyRoomNext ==
    \/ GameLoop
    \/ \E creep_name \in CreepNames : RunCreepsIterAnyRoom(creep_name)
    \/ RunCreepsNext
    \/ SpawnCreeps
    \/ \E spawn \in SpawnNames : SpawnCreepsIterAnyRoom(spawn)
    \/ GameLoopDone

AnyRoomSpec == Init /\ [][AnyRoomNext]_vars

(* C13: no failure inside the core aborts a tick: whatever the world       *)
(* answers, a creep or a spawn whose room does not resolve included,       *)
(* game_loop runs for every live creep and every live spawn and returns.   *)
C13_TickNeverAborts ==
    /\ pc # "panicked"
    /\ TickDone => Processed = spawns

----------------------------------------------------------------------------
(* The run with its history: created lists, in order, the names of the     *)
(* creeps spawn_creep has returned Ok for since the code was loaded.       *)
(* spawn_creeps reads nothing that run_creeps writes, so the history is    *)
(* followed with at most the creep "c1" live.                              *)
GameLoopCounted == GameLoopStep(SUBSET {"c1"})

SpawnCreepsIterCounted(spawn) == SpawnCreepsStep(spawn, OwnedRooms, TRUE)

CountedNext ==
    \/ GameLoopCounted
    \/ \E creep_name \in CreepNames : RunCreepsIter(creep_name)
    \/ RunCreepsNext
    \/ SpawnCreeps
    \/ \E spawn \in SpawnNames : SpawnCreepsIterCounted(spawn)
    \/ GameLoopDone

CountedSpec == Init /\ [][CountedNext]_vars

(* C20: game::time() growing from tick to tick, every creep created gets a *)
(* name that no creep created before it got, in the same tick or in an     *)
(* earlier one, whatever requests were rejected in between.                *)
C20_CreatedNamesDistinct ==
    \A i, j \in 1..Len(created) : i # j => created[i] # created[j]

C20_Witness ==
    /\ tick = 2
    /\ Requests = {1, 2}
    /\ RequestRes(1) = "Other"
    /\ RequestRes(2) = "Ok"
    /\ created = <<Name(1, 0), Name(1, 1), Name(2, 0)>>

----------------------------------------------------------------------------
(* A live world for the creep "c1": it is live in every tick and never     *)
(* spawning; its room holds the controller "k1" and the active source      *)
(* "s1", which stay; it stands on a line of places 0..MaxPath, in range of *)
(* the source at place 0 and of the controller at place MaxPath; it        *)
(* carries energy out of a capacity of MaxCarry.  A harvest in range adds  *)
(* a unit of energy, an upgrade in range takes one, a move_to moves the    *)
(* creep one place towards its target.  game::time() is followed up to     *)
(* MaxTick and stays there, the game going on.                             *)

LiveInit ==
    /\ tick = 0
    /\ pc = "idle"
    /\ creeps = {}
    /\ todo = {}
    /\ creep_states = EmptyMap
    /\ frame = None
    /\ spawns = {}
    /\ spawn_todo = {}
    /\ additional = None
    /\ spawn_log = << >>
    /\ energy \in 0..MaxCarry
    /\ place \in 0..MaxPath
    /\ created = << >>

LiveGameLoop ==
    /\ pc = "idle"
    /\ tick' = IF tick < MaxTick THEN tick + 1 ELSE tick
    /\ pc' = "run_creeps"
    /\ creeps' = {"c1"}
    /\ todo' = {"c1"}
    /\ spawns' = {}
    /\ frame' = None
    /\ spawn_log' = << >>
    /\ UNCHANGED <<creep_states, spawn_todo, additional, world, created>>

\* the place where a command at the object id succeeds
PlaceOf(id) == IF id \in Sources THEN 0 ELSE MaxPath

\* what the live world answers to the calls of one run of run_creep
LiveAnswers(run) ==
    /\ ~run.spawning
    /\ run.store = Some([used |-> energy, free |-> MaxCarry - energy])
    /\ run.exec # None =>
          /\ run.exec[1].resolved # Some(FALSE)
          /\ \A i \in 1..Len(run.calls) :
                run.calls[i].op # "move_to" =>
                    run.calls[i].rc = IF place = PlaceOf(run.calls[i].id)
                                      THEN "Ok" ELSE "NotInRange"
    /\ run.policy # None =>
          /\ run.policy[1].roster # None => run.policy[1].roster[1] = <<"k1">>
          /\ run.policy[1].paths # None =>
                run.policy[1].paths[1] =
                    [s \in {"s1"} |-> IF place = 0 THEN 1 ELSE place]

\* the energy carried after the commands sent took effect
EnergyAfter(sent) ==
    IF \E i \in 1..Len(sent) : sent[i].op = "harvest" /\ sent[i].rc = "Ok"
    THEN energy + 1
    ELSE IF \E i \in 1..Len(sent) :
                sent[i].op = "upgrade_controller" /\ sent[i].rc = "Ok"
    THEN energy - 1
    ELSE energy

\* the place of the creep after the commands sent took effect
PlaceAfter(sent) ==
    IF \E i \in 1..Len(sent) : sent[i].op = "move_to"
    THEN LET to == PlaceOf(sent[CHOOSE i \in 1..Len(sent) : sent[i].op = "move_to"].id)
         IN IF place < to THEN place + 1
            ELSE IF place > to THEN place - 1 ELSE place
    ELSE place

\* the body of the loop of run_creeps for "c1" in the live world
LiveRunCreepsIter ==
    /\ pc = "run_creeps"
    /\ frame = None
    /\ "c1" \in todo
    /\ \E it \in RunCreepsBody(creep_states, "c1", OwnedRooms) :
          /\ it.frame.run # None => LiveAnswers(it.frame.run[1])
          /\ creep_states' = it.states
          /\ frame' = Some(it.frame)
          /\ energy' = IF it.frame.run = None THEN energy
                       ELSE EnergyAfter(it.frame.run[1].calls)
          /\ place' = IF it.frame.run = None THEN place
                      ELSE PlaceAfter(it.frame.run[1].calls)
    /\ todo' = todo \ {"c1"}
    /\ UNCHANGED <<tick, pc, creeps, spawns, spawn_todo, additional, spawn_log,
                   created>>

LiveNext ==
    \/ LiveGameLoop
    \/ LiveRunCreepsIter
    \/ RunCreepsNext
    \/ SpawnCreeps
    \/ \E spawn \in SpawnNames : SpawnCreepsIter(spawn)
    \/ GameLoopDone

\* the game calls game_loop tick after tick and the code runs on
LiveSpec == LiveInit /\ [][LiveNext]_vars /\ WF_vars(LiveNext)

\* "c1" has an entry in CREEP_STATES
HasEntry == "c1" \in Keys(creep_states)
\* "c1" holds a target of a kind
Holds(kind) ==
    /\ HasEntry
    /\ creep_states["c1"].target # None
    /\ creep_states["c1"].target[1].kind = kind

(* C18: in the live world the creep "c1" holds a Harvest target until it   *)
(* has no free capacity and then an Upgrade target, holds an Upgrade       *)
(* target until it carries no energy and then a Harvest target, again and  *)
(* again: it holds each kind infinitely often, and once it has an entry    *)
(* it ends every tick with a target.                                       *)
C18_AlternatesForever ==
    /\ []<>Holds("Harvest")
    /\ []<>Holds("Upgrade")
    /\ [][(Holds("Harvest") /\ ~Holds("Harvest")') =>
             energy = MaxCarry /\ Holds("Upgrade")']_vars
    /\ [][(Holds("Upgrade") /\ ~Holds("Upgrade")') =>
             energy = 0 /\ Holds("Harvest")']_vars
    /\ [][(HasEntry /\ frame = None /\ frame' # None) =>
             Holds("Harvest")' \/ Holds("Upgrade")']_vars

C18_Witness ==
    /\ Executed
    /\ FrHeld = Some(Upgrade("k1"))
    /\ ~FrExec.keep
    /\ energy = 0
    /\ place = MaxPath
    /\ FrTarget = Some(Harvest("s1"))
    /\ tick = MaxTick

=============================================================================
